---- MODULE Spec2Model ----
(***************************************************************************)
(* Model of the strategy / risk / ledger cycle of src/src/Dashboard.jsx.   *)
(*                                                                         *)
(* Units.  Prices, balances and P&L are integer cents, as in the source.   *)
(* The value strategy's fair value is a real number (mid plus a uniform    *)
(* noise in [-7.5, 7.5)); it is kept here in half cents (fair2 = 2*fair),  *)
(* and a confidence c in [0,1] is kept as ConfScale*c, so that             *)
(* (fair - ask)/100 in half cents is exactly edge2 and every comparison    *)
(* of the source is an integer comparison.                                 *)
(***************************************************************************)
EXTENDS Integers, Sequences, FiniteSets, TLC

\* ------------------------------------------------------------------ bounds
MaxCycles == 1        \* ticks explored by Spec between resets
MaxInflight == 1      \* snapshot fetches that may be pending at once
MaxWalk == 2          \* cents a simulated mid may drift away from 50
MaxLongCycles == 104  \* ticks explored by SpecLong
MaxRunCycles == 3     \* ticks explored by SpecRun
MaxCtlCycles == 2     \* ticks explored by SpecCtl
MaxLiveCycles == 2    \* ticks explored by SpecLive
MaxLivePending == 2   \* snapshot fetches that may be pending at once in SpecLive
MaxPresses == 2       \* START / STOP lines the log may hold when the button is pressed
MaxBookCycles == 2    \* ticks explored by SpecBook between resets
MaxTimerCycles == 2   \* ticks explored by SpecTimer

\* ------------------------------------------------------- program constants
ConfScale == 200      \* confidence unit: 1/200 (half cents over 100)
MMConfidence == 100   \* confidence: 0.5 of evaluateMMStrategy
ValueMaxCount == 3    \* Math.min(maxContracts, 3)
StartBalance == 10000
EquityKeep == 100     \* equityCurve.slice(-100)
TradesKeep == 50      \* closedTrades.slice(-50)
LogKeep == 150        \* log.slice(-150)

NoPos == [count |-> 0]

\* ----------------------------------------------------------------- helpers
Max(a, b) == IF a >= b THEN a ELSE b
Min(a, b) == IF a <= b THEN a ELSE b
\* Math.ceil(n/d) for d > 0
CeilDiv(n, d) == -((-n) \div d)
\* Math.round(n/2): halves round up
RoundHalf(n) == (n + 1) \div 2
\* arr.slice(-n) for n > 0
SliceLast(s, n) == IF Len(s) <= n THEN s ELSE SubSeq(s, Len(s) - n + 1, Len(s))
Last(s) == s[Len(s)]

RECURSIVE FlattenSeq(_)
FlattenSeq(ss) == IF ss = <<>> THEN <<>> ELSE ss[1] \o FlattenSeq(Tail(ss))

\* markets.find((m) => m.ticker === t): index of the first match, 0 if none
FindMarket(mkts, t) ==
  IF \E i \in 1..Len(mkts) : mkts[i].ticker = t
    THEN CHOOSE i \in 1..Len(mkts) :
           mkts[i].ticker = t /\ \A j \in 1..(i-1) : mkts[j].ticker # t
    ELSE 0

\* -------------------------------------------------------------- strategies
\* evaluateValueStrategy without its confidence filter (conf >= minConfidence)
evaluateValueStrategyUnfiltered(market, params, fair2) ==
  LET yesEdge2 == fair2 - 2 * market.yesAsk
      noAsk == 100 - market.yesBid
      noEdge2 == (200 - fair2) - 2 * noAsk
      cnt == Min(params.maxContracts, ValueMaxCount)
  IN (IF yesEdge2 >= 2 * params.threshold
        THEN << [ticker |-> market.ticker, side |-> "YES", price |-> market.yesAsk + 1,
                  count |-> cnt, reason |-> "YES undervalued",
                  confidence |-> Min(yesEdge2, ConfScale), edge2 |-> yesEdge2] >>
        ELSE <<>>)
     \o
     (IF noEdge2 >= 2 * params.threshold
        THEN << [ticker |-> market.ticker, side |-> "NO", price |-> noAsk + 1,
                  count |-> cnt, reason |-> "NO undervalued",
                  confidence |-> Min(noEdge2, ConfScale), edge2 |-> noEdge2] >>
        ELSE <<>>)

\* evaluateValueStrategy judging the NO side on a draw of its own (the noise of
\* the YES side mirrored around mid)
evaluateValueStrategyTwoDraws(market, params, fair2) ==
  LET yesEdge2 == fair2 - 2 * market.yesAsk
      yesConf == Min(yesEdge2, ConfScale)
      noFair2 == 200 - (4 * market.mid - fair2)
      noAsk == 100 - market.yesBid
      noEdge2 == noFair2 - 2 * noAsk
      noConf == Min(noEdge2, ConfScale)
      cnt == Min(params.maxContracts, ValueMaxCount)
      yesSig == IF yesEdge2 >= 2 * params.threshold /\ yesConf >= params.minConfidence
                  THEN << [ticker |-> market.ticker, side |-> "YES", price |-> market.yesAsk + 1,
                            count |-> cnt, reason |-> "YES undervalued",
                            confidence |-> yesConf, edge2 |-> yesEdge2] >>
                  ELSE <<>>
      noSig == IF noEdge2 >= 2 * params.threshold /\ noConf >= params.minConfidence
                 THEN << [ticker |-> market.ticker, side |-> "NO", price |-> noAsk + 1,
                           count |-> cnt, reason |-> "NO undervalued",
                           confidence |-> noConf, edge2 |-> noEdge2] >>
                 ELSE <<>>
  IN yesSig \o noSig

\* evaluateValueStrategy with the random draw made explicit: fair2 = 2 * fair
evaluateValueStrategy(market, params, fair2) ==
  LET yesEdge2 == fair2 - 2 * market.yesAsk
      yesConf == Min(yesEdge2, ConfScale)
      noFair2 == 200 - fair2
      noAsk == 100 - market.yesBid
      noEdge2 == noFair2 - 2 * noAsk
      noConf == Min(noEdge2, ConfScale)
      cnt == Min(params.maxContracts, ValueMaxCount)
      yesSig == IF yesEdge2 >= 2 * params.threshold /\ yesConf >= params.minConfidence
                  THEN << [ticker |-> market.ticker, side |-> "YES", price |-> market.yesAsk + 1,
                            count |-> cnt, reason |-> "YES undervalued",
                            confidence |-> yesConf, edge2 |-> yesEdge2] >>
                  ELSE <<>>
      noSig == IF noEdge2 >= 2 * params.threshold /\ noConf >= params.minConfidence
                 THEN << [ticker |-> market.ticker, side |-> "NO", price |-> noAsk + 1,
                           count |-> cnt, reason |-> "NO undervalued",
                           confidence |-> noConf, edge2 |-> noEdge2] >>
                 ELSE <<>>
  IN yesSig \o noSig

\* evaluateMMStrategy rounding half the spread up instead of down
evaluateMMStrategyHalfUp(market, params) ==
  LET half == (params.spread + 1) \div 2
  IN << [ticker |-> market.ticker, side |-> "YES", price |-> Max(1, market.mid - half),
         count |-> params.size, reason |-> "MM yes bid",
         confidence |-> MMConfidence, edge2 |-> 2 * half],
        [ticker |-> market.ticker, side |-> "NO", price |-> Max(1, 100 - market.mid - half),
         count |-> params.size, reason |-> "MM no bid",
         confidence |-> MMConfidence, edge2 |-> 2 * half] >>

\* Two resting quotes around mid, half the (floored) spread away on either side.
evaluateMMStrategy(market, params) ==
  LET half == params.spread \div 2
  IN << [ticker |-> market.ticker, side |-> "YES", price |-> Max(1, market.mid - half),
         count |-> params.size, reason |-> "MM yes bid",
         confidence |-> MMConfidence, edge2 |-> 2 * half],
        [ticker |-> market.ticker, side |-> "NO", price |-> Max(1, 100 - market.mid - half),
         count |-> params.size, reason |-> "MM no bid",
         confidence |-> MMConfidence, edge2 |-> 2 * half] >>

\* the currentMarkets.forEach of the tick: per market, value signals then MM signals;
\* fairs2[i] is the fair-value draw for market i
newSignalsOf(mkts, strategy, vParams, mParams, fairs2) ==
  FlattenSeq([i \in 1..Len(mkts) |->
     (IF strategy \in {"value", "both"}
        THEN evaluateValueStrategy(mkts[i], vParams, fairs2[i]) ELSE <<>>)
     \o
     (IF strategy \in {"mm", "both"}
        THEN evaluateMMStrategy(mkts[i], mParams) ELSE <<>>)])

\* -------------------------------------------------------------- risk filter
\* { ...sig, status: "REJECTED", rejectReason: r }
Rejected(sig, r) ==
  [f \in DOMAIN sig \cup {"status", "rejectReason"} |->
     IF f = "status" THEN "REJECTED" ELSE IF f = "rejectReason" THEN r ELSE sig[f]]

\* { ...sig, status: "APPROVED" }
Approved(sig) ==
  [f \in DOMAIN sig \cup {"status"} |-> IF f = "status" THEN "APPROVED" ELSE sig[f]]

\* dailyLossOf with the sign test the wrong way round: it measures the profit
dailyLossOfProfit(pf) == IF pf.totalPnl > 0 THEN pf.totalPnl ELSE 0

\* currentPortfolio.totalPnl < 0 ? Math.abs(currentPortfolio.totalPnl) : 0
dailyLossOf(pf) == IF pf.totalPnl < 0 THEN -pf.totalPnl ELSE 0

posKey(sig) == <<sig.ticker, sig.side>>

\* checkSignal with the confidence check moved in front of the exposure check
checkSignalConfidenceFirst(sig, pf, strategy, vParams, rParams) ==
  IF sig.confidence < vParams.minConfidence /\ strategy # "mm"
    THEN Rejected(sig, "Low confidence")
  ELSE IF sig.price * sig.count > rParams.maxExposure
    THEN Rejected(sig, "Exposure limit")
  ELSE IF posKey(sig) \in DOMAIN pf.positions
          /\ pf.positions[posKey(sig)].count >= rParams.maxPositionPerMarket
    THEN Rejected(sig, "Position limit")
  ELSE IF dailyLossOf(pf) >= rParams.maxDailyLoss
    THEN Rejected(sig, "Daily loss limit")
  ELSE Approved(sig)

\* checkSignal without its daily loss check
checkSignalNoLossCheck(sig, pf, strategy, vParams, rParams) ==
  IF sig.price * sig.count > rParams.maxExposure
    THEN Rejected(sig, "Exposure limit")
  ELSE IF sig.confidence < vParams.minConfidence /\ strategy # "mm"
    THEN Rejected(sig, "Low confidence")
  ELSE IF posKey(sig) \in DOMAIN pf.positions
          /\ pf.positions[posKey(sig)].count >= rParams.maxPositionPerMarket
    THEN Rejected(sig, "Position limit")
  ELSE Approved(sig)

\* checkSignal without its position-limit check
checkSignalNoPositionCheck(sig, pf, strategy, vParams, rParams) ==
  IF sig.price * sig.count > rParams.maxExposure
    THEN Rejected(sig, "Exposure limit")
  ELSE IF sig.confidence < vParams.minConfidence /\ strategy # "mm"
    THEN Rejected(sig, "Low confidence")
  ELSE IF dailyLossOf(pf) >= rParams.maxDailyLoss
    THEN Rejected(sig, "Daily loss limit")
  ELSE Approved(sig)

\* The body of newSignals.map((sig) => ...): the verdict on one signal, judged
\* against currentPortfolio (the portfolio as it stood when the tick began).
checkSignal(sig, pf, strategy, vParams, rParams) ==
  IF sig.price * sig.count > rParams.maxExposure
    THEN Rejected(sig, "Exposure limit")
  ELSE IF sig.confidence < vParams.minConfidence /\ strategy # "mm"
    THEN Rejected(sig, "Low confidence")
  ELSE IF posKey(sig) \in DOMAIN pf.positions
          /\ pf.positions[posKey(sig)].count >= rParams.maxPositionPerMarket
    THEN Rejected(sig, "Position limit")
  ELSE IF dailyLossOf(pf) >= rParams.maxDailyLoss
    THEN Rejected(sig, "Daily loss limit")
  ELSE Approved(sig)

checkedSignalsOf(sigs, pf, strategy, vParams, rParams) ==
  [i \in 1..Len(sigs) |-> checkSignal(sigs[i], pf, strategy, vParams, rParams)]

\* approvedOf without its filter: every checked signal reaches the ledger
approvedOfAll(checked) == checked

\* checkedSignals.filter((s) => s.status === "APPROVED")
approvedOf(checked) == SelectSeq(checked, LAMBDA s : s.status = "APPROVED")

\* ------------------------------------------------------------------ ledger
\* Inputs (count, price) on which the IEEE-754 evaluation of
\* 0.07 * count * (price/100) * (1 - price/100) * 100, taken left to right,
\* ends just above an integer that the exact product equals, so that
\* Math.ceil returns one more than the exact ceiling (0.07*4*0.5*0.5*100 is
\* 7.000000000000001).  Exhaustive for count in 1..20, price in 0..100.
FloatExcess ==
  { <<4, 50>>, <<8, 50>>, <<12, 50>>, <<16, 25>>, <<16, 50>>, <<16, 75>> }

\* feeOf charging 7% of the order's cost
feeOfOnCost(count, price) ==
  CeilDiv(7 * count * price, 100)

\* Math.ceil(0.07 * sig.count * (sig.price / 100) * (1 - sig.price / 100) * 100)
feeOf(count, price) ==
  CeilDiv(7 * count * price * (100 - price), 10000)
    + (IF <<count, price>> \in FloatExcess THEN 1 ELSE 0)

\* currentMarkets.find((m) => m.ticker === t)?.mid || fallback
midOr(mkts, t, fallback) ==
  LET i == FindMarket(mkts, t)
  IN IF i # 0 /\ mkts[i].mid # 0 THEN mkts[i].mid ELSE fallback

\* exitPriceOf closing at the signal's own price instead of the snapshot's mid
exitPriceOfSignalPrice(sig, mkts) ==
  IF sig.side = "YES" THEN sig.price ELSE 100 - sig.price

exitPriceOf(sig, mkts) ==
  IF sig.side = "YES" THEN midOr(mkts, sig.ticker, sig.price)
                      ELSE 100 - midOr(mkts, sig.ticker, sig.price)

\* what closedTrades becomes when a trade is recorded; prev is the portfolio the
\* updater was called with, not the one being built
closedTradesAfter(prev, trade) == Append(SliceLast(prev.closedTrades, TradesKeep), trade)
\* applySignal liquidating only positions that were open before the cycle
applySignalAgainstPrev(next, prev, sig, mkts) ==
  LET fee == feeOf(sig.count, sig.price)
      key == posKey(sig)
  IN IF key \in DOMAIN prev.positions /\ key \in DOMAIN next.positions
       THEN LET existing == next.positions[key]
                exitPrice == exitPriceOf(sig, mkts)
                pnl == (exitPrice - existing.avgPrice) * existing.count
            IN [next EXCEPT
                  !.totalFees = @ + fee,
                  !.balance = @ - fee + pnl,
                  !.totalPnl = @ + pnl,
                  !.closedTrades = closedTradesAfter(prev,
                      [ticker |-> sig.ticker, side |-> sig.side,
                       entryPrice |-> existing.avgPrice, exitPrice |-> exitPrice,
                       count |-> existing.count, pnl |-> pnl]),
                  !.positions = [k \in DOMAIN next.positions \ {key} |-> next.positions[k]]]
       ELSE [next EXCEPT
                  !.totalFees = @ + fee,
                  !.balance = @ - fee - sig.price * sig.count,
                  !.positions = [k \in DOMAIN next.positions \cup {key} |->
                      IF k = key
                        THEN [side |-> sig.side, count |-> sig.count,
                              avgPrice |-> sig.price, ticker |-> sig.ticker]
                        ELSE next.positions[k]]]

\* One iteration of approved.forEach: next is the portfolio being built.
applySignal(next, prev, sig, mkts) ==
  LET fee == feeOf(sig.count, sig.price)
      key == posKey(sig)
  IN IF key \in DOMAIN next.positions
       THEN LET existing == next.positions[key]
                exitPrice == exitPriceOf(sig, mkts)
                pnl == (exitPrice - existing.avgPrice) * existing.count
            IN [next EXCEPT
                  !.totalFees = @ + fee,
                  !.balance = @ - fee + pnl,
                  !.totalPnl = @ + pnl,
                  !.closedTrades = closedTradesAfter(prev,
                      [ticker |-> sig.ticker, side |-> sig.side,
                       entryPrice |-> existing.avgPrice, exitPrice |-> exitPrice,
                       count |-> existing.count, pnl |-> pnl]),
                  !.positions = [k \in DOMAIN next.positions \ {key} |-> next.positions[k]]]
       ELSE [next EXCEPT
                  !.totalFees = @ + fee,
                  !.balance = @ - fee - sig.price * sig.count,
                  !.positions = [k \in DOMAIN next.positions \cup {key} |->
                      IF k = key
                        THEN [side |-> sig.side, count |-> sig.count,
                              avgPrice |-> sig.price, ticker |-> sig.ticker]
                        ELSE next.positions[k]]]

\* approved.forEach(...): the portfolio after the first n approved signals
RECURSIVE applyFirst(_, _, _, _)
applyFirst(prev, approved, mkts, n) ==
  IF n = 0 THEN prev
  ELSE applySignal(applyFirst(prev, approved, mkts, n - 1), prev, approved[n], mkts)

\* unrealizedOfPos pricing every position at mid, whatever its side
unrealizedOfPosYesOnly(pos, mkts) ==
  LET i == FindMarket(mkts, pos.ticker)
  IN IF i = 0 THEN 0 ELSE mkts[i].mid * pos.count - pos.avgPrice * pos.count

\* (cp - pos.avgPrice) * pos.count for a position whose market is quoted, else 0
unrealizedOfPos(pos, mkts) ==
  LET i == FindMarket(mkts, pos.ticker)
  IN IF i = 0 THEN 0
     ELSE (IF pos.side = "YES" THEN mkts[i].mid ELSE 100 - mkts[i].mid) * pos.count
            - pos.avgPrice * pos.count

RECURSIVE SumOver(_, _, _)
SumOver(keys, positions, mkts) ==
  IF keys = {} THEN 0
  ELSE LET k == CHOOSE x \in keys : TRUE
       IN unrealizedOfPos(positions[k], mkts) + SumOver(keys \ {k}, positions, mkts)

unrealizedOf(positions, mkts) == SumOver(DOMAIN positions, positions, mkts)

equityCurveAfter(prev, sample) == Append(SliceLast(prev.equityCurve, EquityKeep), sample)

\* The setPortfolio updater of the tick.
ledgerOf(prev, checked, mkts) ==
  LET approved == approvedOf(checked)
      next == applyFirst(prev, approved, mkts, Len(approved))
  IN [next EXCEPT !.equityCurve =
        equityCurveAfter(prev, next.totalPnl + unrealizedOf(next.positions, mkts))]

\* The per-signal steps of the updater, for inspection: entry n holds the
\* portfolio before and after the n-th approved signal was applied.
ledgerStepsOf(prev, checked, mkts) ==
  LET approved == approvedOf(checked)
  IN [n \in 1..Len(approved) |->
        [sig |-> approved[n],
         before |-> applyFirst(prev, approved, mkts, n - 1),
         after |-> applyFirst(prev, approved, mkts, n)]]

\* --------------------------------------------------------------------- log
\* addLog(msg, level): the entry is kept as its level and the kind of message,
\* with the values the message is formatted from; the time stamp is left out.
addLog(lg, entry) == Append(SliceLast(lg, LogKeep), entry)

RECURSIVE addLogs(_, _)
addLogs(lg, entries) ==
  IF entries = <<>> THEN lg ELSE addLogs(addLog(lg, Head(entries)), Tail(entries))

\* "Cycle (LIVE|SIM) - n signals (p approved, r rejected)"
CycleLine(live, n, placed, rejected) ==
  [level |-> "INFO", msg |-> "Cycle", live |-> live, signals |-> n,
   approved |-> placed, rejected |-> rejected]
\* "Cycle (LIVE|SIM) - no signals"
NoSignalsLine(live) == [level |-> "INFO", msg |-> "Cycle no signals", live |-> live]
\* "  -> BUY side ticker @ price x count | edge"
SignalLine(s) ==
  [level |-> "SIGNAL", msg |-> "Order", ticker |-> s.ticker, side |-> s.side,
   price |-> s.price, count |-> s.count, edge2 |-> s.edge2]
\* "  +pnl$ side ticker", logged by the ledger when it liquidates a position
TradeLine(st) ==
  LET pnl == st.after.totalPnl - st.before.totalPnl
  IN [level |-> IF pnl >= 0 THEN "PROFIT" ELSE "LOSS", msg |-> "Trade",
      ticker |-> st.sig.ticker, side |-> st.sig.side, pnl |-> pnl]
StatsResetLine == [level |-> "INFO", msg |-> "Stats reset"]
FetchErrorLine == [level |-> "REJECT", msg |-> "Fetch error"]
ApiErrorLine == [level |-> "REJECT", msg |-> "API error"]
ConnectedLine == [level |-> "SIGNAL", msg |-> "Connected to Kalshi demo API via backend"]
UnreachableLine == [level |-> "REJECT", msg |-> "Backend found but Kalshi unreachable"]
NoBackendLine == [level |-> "INFO", msg |-> "No backend detected"]
BotStartedLine == [level |-> "INFO", msg |-> "Bot started"]
BotStoppedLine == [level |-> "INFO", msg |-> "Bot stopped"]

\* the START / STOP lines held by the log
PressLines(lg) == {i \in DOMAIN lg : lg[i] \in {BotStartedLine, BotStoppedLine}}

\* cycleLinesOf with a summary that leaves the rejections out of its count
cycleLinesOfApprovedOnly(checked, live) ==
  IF Len(checked) > 0
    THEN << CycleLine(live, Len(checked), Len(approvedOf(checked)), 0) >>
         \o [i \in 1..Len(approvedOf(checked)) |-> SignalLine(approvedOf(checked)[i])]
    ELSE << NoSignalsLine(live) >>

\* The lines the interval callback logs for the cycle itself: the summary and
\* one line per approved signal, or the "no signals" line.
cycleLinesOf(checked, live) ==
  IF Len(checked) > 0
    THEN << CycleLine(live, Len(checked), Len(approvedOf(checked)),
                      Len(SelectSeq(checked, LAMBDA s : s.status = "REJECTED"))) >>
         \o [i \in 1..Len(approvedOf(checked)) |-> SignalLine(approvedOf(checked)[i])]
    ELSE << NoSignalsLine(live) >>

\* The lines the setPortfolio updater logs: one per liquidation, in order.
tradeLinesOf(sts) ==
  LET closing == SelectSeq(sts, LAMBDA st : posKey(st.sig) \in DOMAIN st.before.positions)
  IN [i \in 1..Len(closing) |-> TradeLine(closing[i])]

\* resetLog without the line that resetStats writes after clearing the log
resetLogEmpty == <<>>

\* What resetStats leaves in the log: setLog([]) and then addLog("Stats reset").
resetLog == addLog(<<>>, StatsResetLine)

InitialPortfolio ==
  [balance |-> StartBalance, totalPnl |-> 0, positions |-> [k \in {} |-> NoPos],
   closedTrades |-> <<>>, equityCurve |-> <<0>>, totalFees |-> 0]

\* ---------------------------------------------------------------- markets
\* parseMarkets on one raw market: bestYesBid is the top of the yes book (0 when
\* the side is empty), bestNoBid the top of the no book (0 when empty).
parseMarket(raw) ==
  LET bestYesBid == raw.bestYesBid
      bestYesAsk == IF raw.bestNoBid > 0 THEN 100 - raw.bestNoBid ELSE 0
      mid == IF bestYesBid # 0 /\ bestYesAsk # 0
               THEN RoundHalf(bestYesBid + bestYesAsk)
               ELSE (IF raw.last_price # 0 THEN raw.last_price ELSE 50)
  IN [ticker |-> raw.ticker, mid |-> mid,
      yesBid |-> IF bestYesBid # 0 THEN bestYesBid ELSE mid - 2,
      yesAsk |-> IF bestYesAsk # 0 THEN bestYesAsk ELSE mid + 2,
      spread |-> Max(0, bestYesAsk - bestYesBid)]

parseMarkets(rawMarkets) == [i \in 1..Len(rawMarkets) |-> parseMarket(rawMarkets[i])]

\* One market of generateSimMarkets, the draws being mid and spread (integers here).
simMarket(ticker, mid, spread) ==
  LET yesBid == Max(1, RoundHalf(2 * mid - spread))
  IN [ticker |-> ticker, mid |-> mid, yesBid |-> yesBid,
      yesAsk |-> Min(99, yesBid + spread), spread |-> spread]

\* One market of driftSimMarkets: drift2 is twice the drift (a draw in [-4, 4)),
\* ds the change of the rounded spread (a draw in -1..1).
driftMarket(m, drift2, ds) ==
  LET newMid2 == Max(10, Min(190, 2 * m.mid + drift2))
      s == Max(2, m.spread + ds)
  IN [ticker |-> m.ticker, mid |-> RoundHalf(newMid2),
      yesBid |-> Max(1, RoundHalf(newMid2 - s)),
      yesAsk |-> Min(99, RoundHalf(newMid2 + s)),
      spread |-> s]

\* ------------------------------------------------------------ input sets
SimTickers == <<"T1">>
SimMids == {50}
SimSpreads == {4}
DriftChoices == {-4, 3}
SpreadChoices == {0}
NoiseChoices == {-14, 14}

RawBook(t, lp, yb, nb) == [ticker |-> t, last_price |-> lp, bestYesBid |-> yb, bestNoBid |-> nb]
\* Dashboard payloads: T1 with an empty yes book (ask 39, mid from last_price),
\* T1 quoted 3/7, T2 alone quoted 53/57, and an empty list.
LiveFeeds ==
  { << RawBook("T1", 80, 0, 61) >>,
    << RawBook("T1", 5, 3, 93) >>,
    << RawBook("T2", 55, 53, 43) >>,
    << >> }

\* Payloads with sparse books: an empty book last traded at 98, at 97 and at 1,
\* a book quoted 49/50, and a yes bid of 90 with no offer and no last price.
EdgeBooks ==
  { << RawBook("T1", 98, 0, 0) >>,
    << RawBook("T1", 97, 0, 0) >>,
    << RawBook("T1", 1, 0, 0) >>,
    << RawBook("T1", 50, 49, 50) >>,
    << RawBook("T1", 0, 90, 0) >> }
\* Fair-value draws over the whole range of (Math.random() - 0.5) * 15, doubled.
NoiseRange == -15..14
NoiseGrid == {-15, 0, 14}
\* The ranges of the two market-maker sliders.
SpreadRange == 2..20
SizeRange == 1..10

Strategies == {"value", "mm", "both"}
DefaultValueParams == [threshold |-> 8, maxContracts |-> 5, minConfidence |-> 60]
DefaultMmParams == [spread |-> 6, size |-> 2]
DefaultRiskParams == [maxPositionPerMarket |-> 10, maxExposure |-> 5000, maxDailyLoss |-> 1000]
ValueParamChoices ==
  { DefaultValueParams, [threshold |-> 8, maxContracts |-> 5, minConfidence |-> 120] }
MmParamChoices == { DefaultMmParams, [spread |-> 10, size |-> 8] }
\* Value sliders at the low end: thresholds 1 and 5, no confidence floor.
EdgeValueParams ==
  { [threshold |-> 1, maxContracts |-> 5, minConfidence |-> 0],
    [threshold |-> 5, maxContracts |-> 1, minConfidence |-> 0] }
RiskParamChoices ==
  { DefaultRiskParams,
    [maxPositionPerMarket |-> 8, maxExposure |-> 500, maxDailyLoss |-> 100] }

\* ------------------------------------------------------------------ state
VARIABLES mode, markets, isRunning, cycleCount, totalSignals, ordersPlaced,
          ordersRejected, signals, portfolio, activeStrategy, valueParams,
          mmParams, riskParams, inflight, log, steps, fairs, lastOp, due

config == <<activeStrategy, valueParams, mmParams, riskParams>>
counters == <<cycleCount, totalSignals, ordersPlaced, ordersRejected>>
vars == <<mode, markets, isRunning, cycleCount, totalSignals, ordersPlaced,
          ordersRejected, signals, portfolio, activeStrategy, valueParams,
          mmParams, riskParams, inflight, log, steps, fairs, lastOp, due>>
\* steps and fairs record the last cycle: the per-signal ledger steps of its
\* setPortfolio updater, and twice the fair value drawn for each market by
\* evaluateValueStrategy (empty when the value strategy did not run).
\* lastOp tells whether the handler that ran last was the interval callback
\* ("tick"), resetStats ("reset"), the catch block of fetchLiveData ("failed"),
\* a configuration change that cleared an interval whose period had already
\* elapsed ("cancel"), or any other one ("other").
\* due tells that the period of the current interval has elapsed and its
\* callback has not run yet; the effect's cleanup (clearInterval) drops it.

Init ==
  /\ mode = "detecting"
  /\ markets = <<>>
  /\ isRunning = FALSE
  /\ cycleCount = 0 /\ totalSignals = 0 /\ ordersPlaced = 0 /\ ordersRejected = 0
  /\ signals = <<>>
  /\ portfolio = InitialPortfolio
  /\ activeStrategy = "value"
  /\ valueParams = DefaultValueParams
  /\ mmParams = DefaultMmParams
  /\ riskParams = DefaultRiskParams
  /\ inflight = 0
  /\ log = <<>>
  /\ steps = <<>>
  /\ fairs = <<>>
  /\ lastOp = "other"
  /\ due = FALSE

\* ---------------------------------------------------------------- actions
\* What the mount effect logs on its way to simulation mode: nothing when no
\* backend URL is configured, else one of the two lines of its failure paths.
SimMountLogs == { <<>>, <<UnreachableLine>>, <<NoBackendLine>> }

\* The mount effect when no backend answers: simulation mode.
DetectSim ==
  /\ mode = "detecting"
  /\ mode' = "sim"
  /\ \E mid \in SimMids, sp \in SimSpreads :
       markets' = [i \in 1..Len(SimTickers) |-> simMarket(SimTickers[i], mid, sp)]
  /\ \E lines \in SimMountLogs : log' = addLogs(log, lines)
  /\ lastOp' = "other"
  /\ due' = FALSE
  /\ UNCHANGED <<isRunning, counters, signals, portfolio, config, inflight, steps, fairs>>

\* The mount effect when the backend reports a connection: live mode.
DetectLive ==
  /\ mode = "detecting"
  /\ mode' = "live"
  /\ log' = addLog(log, ConnectedLine)
  /\ lastOp' = "other"
  /\ due' = FALSE
  /\ UNCHANGED <<markets, isRunning, counters, signals, portfolio, config, inflight, steps, fairs>>

\* The START / STOP button, pressed while the log holds fewer than MaxPresses of
\* its lines.
ToggleRunning ==
  /\ Cardinality(PressLines(log)) < MaxPresses
  /\ isRunning' = ~isRunning
  /\ log' = addLog(log, IF isRunning THEN BotStoppedLine ELSE BotStartedLine)
  /\ lastOp' = "other"
  /\ due' = FALSE
  /\ UNCHANGED <<mode, markets, counters, signals, portfolio, config, inflight, steps, fairs>>

\* Cycle counting only the ticks that produce signals
CycleCountingSignals(mkts, fairs2) ==
  LET newSignals == newSignalsOf(mkts, activeStrategy, valueParams, mmParams, fairs2)
      checked == checkedSignalsOf(newSignals, portfolio, activeStrategy, valueParams, riskParams)
      placed == Len(approvedOf(checked))
      rejected == Len(SelectSeq(checked, LAMBDA s : s.status = "REJECTED"))
      sts == ledgerStepsOf(portfolio, checked, mkts)
  IN /\ portfolio' = ledgerOf(portfolio, checked, mkts)
     /\ steps' = sts
     /\ fairs' = IF activeStrategy \in {"value", "both"} THEN fairs2 ELSE <<>>
     /\ log' = addLogs(log, cycleLinesOf(checked, mode = "live") \o tradeLinesOf(sts))
     /\ signals' = checked
     /\ totalSignals' = totalSignals + Len(checked)
     /\ ordersPlaced' = ordersPlaced + placed
     /\ ordersRejected' = ordersRejected + rejected
     /\ cycleCount' = cycleCount + (IF Len(checked) > 0 THEN 1 ELSE 0)

\* Cycle with the parameters in force when the engine was constructed
CycleWithStartConfig(mkts, fairs2) ==
  LET newSignals == newSignalsOf(mkts, activeStrategy, DefaultValueParams, DefaultMmParams, fairs2)
      checked == checkedSignalsOf(newSignals, portfolio, activeStrategy, DefaultValueParams, DefaultRiskParams)
      placed == Len(approvedOf(checked))
      rejected == Len(SelectSeq(checked, LAMBDA s : s.status = "REJECTED"))
      sts == ledgerStepsOf(portfolio, checked, mkts)
  IN /\ portfolio' = ledgerOf(portfolio, checked, mkts)
     /\ steps' = sts
     /\ fairs' = IF activeStrategy \in {"value", "both"} THEN fairs2 ELSE <<>>
     /\ log' = addLogs(log, cycleLinesOf(checked, mode = "live") \o tradeLinesOf(sts))
     /\ signals' = checked
     /\ totalSignals' = totalSignals + Len(checked)
     /\ ordersPlaced' = ordersPlaced + placed
     /\ ordersRejected' = ordersRejected + rejected
     /\ cycleCount' = cycleCount + 1

\* Cycle leaving the rejections out of the running total
CycleLosingRejections(mkts, fairs2) ==
  LET newSignals == newSignalsOf(mkts, activeStrategy, valueParams, mmParams, fairs2)
      checked == checkedSignalsOf(newSignals, portfolio, activeStrategy, valueParams, riskParams)
      placed == Len(approvedOf(checked))
      rejected == Len(SelectSeq(checked, LAMBDA s : s.status = "REJECTED"))
      sts == ledgerStepsOf(portfolio, checked, mkts)
  IN /\ portfolio' = ledgerOf(portfolio, checked, mkts)
     /\ steps' = sts
     /\ fairs' = IF activeStrategy \in {"value", "both"} THEN fairs2 ELSE <<>>
     /\ log' = addLogs(log, cycleLinesOf(checked, mode = "live") \o tradeLinesOf(sts))
     /\ signals' = checked
     /\ totalSignals' = totalSignals + Len(checked)
     /\ ordersPlaced' = ordersPlaced + placed
     /\ ordersRejected' = ordersRejected
     /\ cycleCount' = cycleCount + 1

\* The cycle on the snapshot mkts, with the fair-value draws fairs2: everything
\* the setMarkets updater of the interval callback does.
Cycle(mkts, fairs2) ==
  LET newSignals == newSignalsOf(mkts, activeStrategy, valueParams, mmParams, fairs2)
      checked == checkedSignalsOf(newSignals, portfolio, activeStrategy, valueParams, riskParams)
      placed == Len(approvedOf(checked))
      rejected == Len(SelectSeq(checked, LAMBDA s : s.status = "REJECTED"))
      sts == ledgerStepsOf(portfolio, checked, mkts)
  IN /\ portfolio' = ledgerOf(portfolio, checked, mkts)
     /\ steps' = sts
     /\ fairs' = IF activeStrategy \in {"value", "both"} THEN fairs2 ELSE <<>>
     /\ log' = addLogs(log, cycleLinesOf(checked, mode = "live") \o tradeLinesOf(sts))
     /\ signals' = checked
     /\ totalSignals' = totalSignals + Len(checked)
     /\ ordersPlaced' = ordersPlaced + placed
     /\ ordersRejected' = ordersRejected + rejected
     /\ cycleCount' = cycleCount + 1

\* Tick without its guard on the run state: the interval is never cleared
TickWhileStopped(maxCycles, maxPending, drifts, spreadSteps, noises) ==
  /\ cycleCount < maxCycles
  /\ IF mode = "live"
       THEN /\ inflight < maxPending
            /\ inflight' = inflight + 1
            /\ markets' = markets
       ELSE /\ inflight' = inflight
            /\ \E d \in [1..Len(markets) -> drifts], ds \in [1..Len(markets) -> spreadSteps] :
                 /\ markets' = [i \in 1..Len(markets) |-> driftMarket(markets[i], d[i], ds[i])]
                 /\ \A i \in 1..Len(markets) :
                      markets'[i].mid \in (50 - MaxWalk)..(50 + MaxWalk)
  /\ \E n \in [1..Len(markets) -> noises] :
       Cycle(markets', [i \in 1..Len(markets) |-> 2 * markets'[i].mid + n[i]])
  /\ lastOp' = "tick"
  /\ due' = FALSE
  /\ UNCHANGED <<mode, isRunning, config>>

\* One firing of the interval callback, up to maxCycles firings and, in live
\* mode, with fewer than maxPending fetches already pending.
Tick(maxCycles, maxPending, drifts, spreadSteps, noises) ==
  /\ isRunning
  /\ cycleCount < maxCycles
  /\ IF mode = "live"
       THEN /\ inflight < maxPending
            /\ inflight' = inflight + 1
            /\ markets' = markets
       ELSE /\ inflight' = inflight
            /\ \E d \in [1..Len(markets) -> drifts], ds \in [1..Len(markets) -> spreadSteps] :
                 /\ markets' = [i \in 1..Len(markets) |-> driftMarket(markets[i], d[i], ds[i])]
                 /\ \A i \in 1..Len(markets) :
                      markets'[i].mid \in (50 - MaxWalk)..(50 + MaxWalk)
  /\ \E n \in [1..Len(markets) -> noises] :
       Cycle(markets', [i \in 1..Len(markets) |-> 2 * markets'[i].mid + n[i]])
  /\ lastOp' = "tick"
  /\ due' = FALSE
  /\ UNCHANGED <<mode, isRunning, config>>

\* The period of the interval elapsing with the interval still in place.
Elapse ==
  /\ isRunning
  /\ ~due
  /\ due' = TRUE
  /\ UNCHANGED <<mode, markets, isRunning, counters, signals, portfolio, config,
                 inflight, log, steps, fairs, lastOp>>

\* The interval callback running after its period has elapsed.
Fire(maxCycles, maxPending, drifts, spreadSteps, noises) ==
  /\ due
  /\ Tick(maxCycles, maxPending, drifts, spreadSteps, noises)

\* FetchResolve also copying a reported balance into the portfolio
FetchResolveSyncBalance ==
  /\ inflight > 0
  /\ inflight' = inflight - 1
  /\ \E data \in LiveFeeds :
       markets' = IF Len(data) > 0 THEN parseMarkets(data) ELSE markets
  /\ portfolio' = [portfolio EXCEPT !.balance = 0]
  /\ lastOp' = "other"
  /\ UNCHANGED <<mode, isRunning, counters, signals, config, log, steps, fairs, due>>

\* fetchLiveData resolving with a dashboard payload (one without an errors list).
FetchResolve ==
  /\ inflight > 0
  /\ inflight' = inflight - 1
  /\ \E data \in LiveFeeds :
       markets' = IF Len(data) > 0 THEN parseMarkets(data) ELSE markets
  /\ lastOp' = "other"
  /\ UNCHANGED <<mode, isRunning, counters, signals, portfolio, config, log, steps, fairs, due>>

\* FetchFail also dropping the market list it could not refresh
FetchFailClearingMarkets ==
  /\ inflight > 0
  /\ inflight' = inflight - 1
  /\ markets' = <<>>
  /\ log' = addLog(log, FetchErrorLine)
  /\ lastOp' = "failed"
  /\ UNCHANGED <<mode, isRunning, counters, signals, portfolio, config, steps, fairs, due>>

\* fetchLiveData throwing (network error, malformed JSON).
FetchFail ==
  /\ inflight > 0
  /\ inflight' = inflight - 1
  /\ log' = addLog(log, FetchErrorLine)
  /\ lastOp' = "failed"
  /\ UNCHANGED <<mode, markets, isRunning, counters, signals, portfolio, config, steps, fairs, due>>

\* fetchLiveData resolving with a payload that carries an errors list (of one).
FetchErrors ==
  /\ inflight > 0
  /\ inflight' = inflight - 1
  /\ \E data \in LiveFeeds :
       /\ markets' = IF Len(data) > 0 THEN parseMarkets(data) ELSE markets
       /\ lastOp' = IF Len(data) > 0 THEN "other" ELSE "failed"
  /\ log' = addLog(log, ApiErrorLine)
  /\ UNCHANGED <<mode, isRunning, counters, signals, portfolio, config, steps, fairs, due>>

\* resetStats carrying the fees paid so far over the reset
resetStatsKeepingFees ==
  /\ cycleCount' = 0 /\ totalSignals' = 0 /\ ordersPlaced' = 0 /\ ordersRejected' = 0
  /\ signals' = <<>>
  /\ log' = resetLog
  /\ portfolio' = [InitialPortfolio EXCEPT !.totalFees = portfolio.totalFees]
  /\ steps' = <<>>
  /\ fairs' = <<>>
  /\ lastOp' = "reset"
  /\ UNCHANGED <<mode, markets, isRunning, config, inflight, due>>

resetStats ==
  /\ cycleCount' = 0 /\ totalSignals' = 0 /\ ordersPlaced' = 0 /\ ordersRejected' = 0
  /\ signals' = <<>>
  /\ log' = resetLog
  /\ portfolio' = InitialPortfolio
  /\ steps' = <<>>
  /\ fairs' = <<>>
  /\ lastOp' = "reset"
  /\ UNCHANGED <<mode, markets, isRunning, config, inflight, due>>

SetActiveStrategy ==
  /\ \E s \in Strategies : activeStrategy' = s
  /\ lastOp' = IF due /\ activeStrategy' # activeStrategy THEN "cancel" ELSE "other"
  /\ due' = (due /\ activeStrategy' = activeStrategy)
  /\ UNCHANGED <<mode, markets, isRunning, counters, signals, portfolio,
                 valueParams, mmParams, riskParams, inflight, log, steps, fairs>>

SetValueParams ==
  /\ \E p \in ValueParamChoices : valueParams' = p
  /\ lastOp' = IF due THEN "cancel" ELSE "other"
  /\ due' = FALSE
  /\ UNCHANGED <<mode, markets, isRunning, counters, signals, portfolio,
                 activeStrategy, mmParams, riskParams, inflight, log, steps, fairs>>

SetMmParams ==
  /\ \E p \in MmParamChoices : mmParams' = p
  /\ lastOp' = IF due THEN "cancel" ELSE "other"
  /\ due' = FALSE
  /\ UNCHANGED <<mode, markets, isRunning, counters, signals, portfolio,
                 activeStrategy, valueParams, riskParams, inflight, log, steps, fairs>>

SetRiskParams ==
  /\ \E p \in RiskParamChoices : riskParams' = p
  /\ lastOp' = IF due THEN "cancel" ELSE "other"
  /\ due' = FALSE
  /\ UNCHANGED <<mode, markets, isRunning, counters, signals, portfolio,
                 activeStrategy, valueParams, mmParams, inflight, log, steps, fairs>>

Next ==
  \/ DetectSim
  \/ DetectLive
  \/ ToggleRunning
  \/ Tick(MaxCycles, MaxInflight, DriftChoices, SpreadChoices, NoiseChoices)
  \/ FetchResolve
  \/ FetchFail
  \/ FetchErrors
  \/ resetStats
  \/ SetActiveStrategy
  \/ SetValueParams
  \/ SetMmParams
  \/ SetRiskParams

Spec == Init /\ [][Next]_vars

\* A configured engine left running: the states reached from Init by detection,
\* the four configuration setters and START, before the first tick.
InitRun ==
  /\ mode \in {"sim", "live"}
  /\ markets \in (IF mode = "live" THEN {<<>>}
                  ELSE {[i \in 1..Len(SimTickers) |-> simMarket(SimTickers[i], mid, sp)] :
                          mid \in SimMids, sp \in SimSpreads})
  /\ isRunning = TRUE
  /\ cycleCount = 0 /\ totalSignals = 0 /\ ordersPlaced = 0 /\ ordersRejected = 0
  /\ signals = <<>>
  /\ portfolio = InitialPortfolio
  /\ activeStrategy \in Strategies
  /\ valueParams \in ValueParamChoices
  /\ mmParams \in MmParamChoices
  /\ riskParams \in RiskParamChoices
  /\ inflight = 0
  /\ log \in {addLog(lines, BotStartedLine) :
               lines \in (IF mode = "live" THEN {<<ConnectedLine>>} ELSE SimMountLogs)}
  /\ steps = <<>>
  /\ fairs = <<>>
  /\ lastOp = "other"
  /\ due = FALSE

NextRun ==
  \/ Tick(MaxRunCycles, MaxInflight, DriftChoices, SpreadChoices, NoiseChoices)
  \/ FetchResolve
  \/ FetchFail
  \/ resetStats

SpecRun == InitRun /\ [][NextRun]_vars

\* The simulated market maker left running for many cycles on a steady market.
InitLong ==
  /\ mode = "sim"
  /\ markets \in {[i \in 1..Len(SimTickers) |-> simMarket(SimTickers[i], mid, sp)] :
                    mid \in SimMids, sp \in SimSpreads}
  /\ isRunning = TRUE
  /\ cycleCount = 0 /\ totalSignals = 0 /\ ordersPlaced = 0 /\ ordersRejected = 0
  /\ signals = <<>>
  /\ portfolio = InitialPortfolio
  /\ activeStrategy = "mm"
  /\ valueParams = DefaultValueParams
  /\ mmParams = DefaultMmParams
  /\ riskParams = DefaultRiskParams
  /\ inflight = 0
  /\ log = <<BotStartedLine>>
  /\ steps = <<>>
  /\ fairs = <<>>
  /\ lastOp = "other"
  /\ due = FALSE

NextLong ==
  \/ Tick(MaxLongCycles, MaxInflight, {0}, {0}, {0})
  \/ ToggleRunning

SpecLong == InitLong /\ [][NextLong]_vars

\* The engine under its controls, in simulation mode: from the state the mount
\* effect leaves (stopped, default configuration), START / STOP, reset and the
\* four setters interleave with ticks.
InitCtl ==
  /\ mode = "sim"
  /\ markets \in {[i \in 1..Len(SimTickers) |-> simMarket(SimTickers[i], mid, sp)] :
                    mid \in SimMids, sp \in SimSpreads}
  /\ isRunning = FALSE
  /\ cycleCount = 0 /\ totalSignals = 0 /\ ordersPlaced = 0 /\ ordersRejected = 0
  /\ signals = <<>>
  /\ portfolio = InitialPortfolio
  /\ activeStrategy = "value"
  /\ valueParams = DefaultValueParams
  /\ mmParams = DefaultMmParams
  /\ riskParams = DefaultRiskParams
  /\ inflight = 0
  /\ log \in SimMountLogs
  /\ steps = <<>>
  /\ fairs = <<>>
  /\ lastOp = "other"
  /\ due = FALSE

NextCtl ==
  \/ ToggleRunning
  \/ Tick(MaxCtlCycles, MaxInflight, DriftChoices, SpreadChoices, NoiseChoices)
  \/ resetStats
  \/ SetActiveStrategy
  \/ SetValueParams
  \/ SetMmParams
  \/ SetRiskParams

SpecCtl == InitCtl /\ [][NextCtl]_vars

\* The live engine left running on its default parameters, with fetches that
\* may outlast the interval: a tick may fire while earlier fetches are pending.
InitLive ==
  /\ mode = "live"
  /\ markets = <<>>
  /\ isRunning = TRUE
  /\ cycleCount = 0 /\ totalSignals = 0 /\ ordersPlaced = 0 /\ ordersRejected = 0
  /\ signals = <<>>
  /\ portfolio = InitialPortfolio
  /\ activeStrategy \in Strategies
  /\ valueParams = DefaultValueParams
  /\ mmParams = DefaultMmParams
  /\ riskParams = DefaultRiskParams
  /\ inflight = 0
  /\ log = <<ConnectedLine, BotStartedLine>>
  /\ steps = <<>>
  /\ fairs = <<>>
  /\ lastOp = "other"
  /\ due = FALSE

NextLive ==
  \/ Tick(MaxLiveCycles, MaxLivePending, DriftChoices, SpreadChoices, NoiseChoices)
  \/ FetchResolve
  \/ FetchFail
  \/ FetchErrors
  \/ resetStats

SpecLive == InitLive /\ [][NextLive]_vars

\* The live engine after a reset, holding one market parsed from a sparse book,
\* with the value sliders at their low end; every fetch of the run fails.
InitBook ==
  /\ mode = "live"
  /\ markets \in {parseMarkets(b) : b \in EdgeBooks}
  /\ isRunning = TRUE
  /\ cycleCount = 0 /\ totalSignals = 0 /\ ordersPlaced = 0 /\ ordersRejected = 0
  /\ signals = <<>>
  /\ portfolio = InitialPortfolio
  /\ activeStrategy \in Strategies
  /\ valueParams \in EdgeValueParams
  /\ mmParams \in MmParamChoices
  /\ riskParams = DefaultRiskParams
  /\ inflight = 0
  /\ log = resetLog
  /\ steps = <<>>
  /\ fairs = <<>>
  /\ lastOp = "reset"
  /\ due = FALSE

NextBook ==
  \/ Tick(MaxBookCycles, MaxInflight, DriftChoices, SpreadChoices, NoiseGrid)
  \/ FetchFail
  \/ resetStats

SpecBook == InitBook /\ [][NextBook]_vars

\* The simulation engine running the value strategy on steady quotes, with the
\* passing of the interval's period and its callback as two steps, and the
\* three sliders' setters.
\* setInterval runs the callback once the period has elapsed unless the interval
\* was cleared first: time passing and the callback are both weakly fair.
InitTimer ==
  /\ mode = "sim"
  /\ markets \in {[i \in 1..Len(SimTickers) |-> simMarket(SimTickers[i], mid, sp)] :
                    mid \in SimMids, sp \in SimSpreads}
  /\ isRunning = TRUE
  /\ cycleCount = 0 /\ totalSignals = 0 /\ ordersPlaced = 0 /\ ordersRejected = 0
  /\ signals = <<>>
  /\ portfolio = InitialPortfolio
  /\ activeStrategy = "value"
  /\ valueParams = DefaultValueParams
  /\ mmParams = DefaultMmParams
  /\ riskParams = DefaultRiskParams
  /\ inflight = 0
  /\ log \in {Append(l, BotStartedLine) : l \in SimMountLogs}
  /\ steps = <<>>
  /\ fairs = <<>>
  /\ lastOp = "other"
  /\ due = FALSE

FireTimer == Fire(MaxTimerCycles, MaxInflight, {0}, {0}, {0})

NextTimer ==
  \/ Elapse
  \/ FireTimer
  \/ SetValueParams
  \/ SetMmParams
  \/ SetRiskParams

SpecTimer ==
  InitTimer /\ [][NextTimer]_vars /\ WF_vars(Elapse) /\ WF_vars(FireTimer)

\* ============================================================== properties
\* A step in which the interval callback fired (no other action raises cycleCount).
TickStep == cycleCount' = cycleCount + 1

ResetStep == cycleCount' = 0 /\ portfolio' = InitialPortfolio /\ signals' = <<>>

\* The four checks of the risk filter, each stated on its own.
ExposureFails(sig, rp) == sig.price * sig.count > rp.maxExposure
ConfidenceFails(sig, strat, vp) == sig.confidence < vp.minConfidence /\ strat # "mm"
PositionFails(sig, pf, rp) ==
  \E k \in DOMAIN pf.positions :
     /\ k = <<sig.ticker, sig.side>>
     /\ pf.positions[k].count >= rp.maxPositionPerMarket
LossFails(pf, rp) == Max(0, -pf.totalPnl) >= rp.maxDailyLoss

HasReason(sig, r) ==
  sig.status = "REJECTED" /\ "rejectReason" \in DOMAIN sig /\ sig.rejectReason = r

\* C1: in every cycle each signal carries the verdict of the first failing check
\* in the order exposure, confidence, position limit, daily loss, judged against
\* the portfolio as it stood when the cycle began; it is APPROVED only if no
\* check fails, and it has a rejectReason iff it is REJECTED.
C1_FirstFailingCheck ==
  [][TickStep =>
      \A i \in DOMAIN signals' :
        LET sig == signals'[i]
            e == ExposureFails(sig, riskParams)
            c == ConfidenceFails(sig, activeStrategy, valueParams)
            p == PositionFails(sig, portfolio, riskParams)
            l == LossFails(portfolio, riskParams)
        IN /\ sig.status \in {"APPROVED", "REJECTED"}
           /\ ("rejectReason" \in DOMAIN sig) <=> (sig.status = "REJECTED")
           /\ (sig.status = "APPROVED") <=> (~e /\ ~c /\ ~p /\ ~l)
           /\ e => HasReason(sig, "Exposure limit")
           /\ (~e /\ c) => HasReason(sig, "Low confidence")
           /\ (~e /\ ~c /\ p) => HasReason(sig, "Position limit")
           /\ (~e /\ ~c /\ ~p /\ l) => HasReason(sig, "Daily loss limit")]_vars

\* C1 witness: a cycle judged a signal that violates both the exposure and the
\* confidence limit and rejected it for exposure, and rejected another signal,
\* within the exposure limit, for its confidence.
C1_Witness ==
  /\ cycleCount > 0
  /\ \E i \in DOMAIN signals :
       /\ ExposureFails(signals[i], riskParams)
       /\ ConfidenceFails(signals[i], activeStrategy, valueParams)
       /\ HasReason(signals[i], "Exposure limit")
  /\ \E i \in DOMAIN signals :
       /\ ~ExposureFails(signals[i], riskParams)
       /\ HasReason(signals[i], "Low confidence")

\* The fee as the documented formula gives it, in exact arithmetic:
\* ceil(0.07 * count * (price/100) * (1 - price/100) * 100).
DocumentedFee(count, price) ==
  LET n == 7 * count * price * (100 - price)
  IN IF n % 10000 = 0 THEN n \div 10000 ELSE (n \div 10000) + 1

StepOpens(st) == <<st.sig.ticker, st.sig.side>> \notin DOMAIN st.before.positions

\* C2: every approved signal changes balance by -fee - price*count when it opens
\* a position and by -fee plus the realized pnl when it liquidates one, the fee
\* being the documented formula on the signal's own price and count; totalFees
\* grows by that fee, and the balance after the cycle is the balance after the
\* last approved signal.
C2_BalanceByDocumentedFee ==
  /\ \A n \in DOMAIN steps :
       LET st == steps[n]
           fee == DocumentedFee(st.sig.count, st.sig.price)
       IN /\ st.after.totalFees = st.before.totalFees + fee
          /\ StepOpens(st) =>
               st.after.balance = st.before.balance - fee - st.sig.price * st.sig.count
          /\ ~StepOpens(st) =>
               st.after.balance = st.before.balance - fee
                                    + (st.after.totalPnl - st.before.totalPnl)
  /\ steps # <<>> => portfolio.balance = Last(steps).after.balance

\* C2 witness (of the failing case): an approved signal of 8 contracts at 50 cents
\* was charged 15 cents, where the documented formula gives 14.
C2_FeeCase ==
  \E n \in DOMAIN steps :
     /\ steps[n].sig.count = 8 /\ steps[n].sig.price = 50
     /\ steps[n].after.totalFees - steps[n].before.totalFees = 15
     /\ DocumentedFee(8, 50) = 14

\* The per-signal steps of a cycle start from the portfolio the cycle began with,
\* follow one another, and end in the portfolio the cycle leaves (the equity
\* sample aside).
StepsChain ==
  /\ \A n \in DOMAIN steps' :
       steps'[n].before = (IF n = 1 THEN portfolio ELSE steps'[n - 1].after)
  /\ LET last == IF steps' = <<>> THEN portfolio ELSE Last(steps').after
     IN /\ portfolio'.balance = last.balance
        /\ portfolio'.totalPnl = last.totalPnl
        /\ portfolio'.totalFees = last.totalFees
        /\ portfolio'.positions = last.positions
        /\ portfolio'.closedTrades = last.closedTrades
  /\ Len(steps') = Cardinality({i \in DOMAIN signals' : signals'[i].status = "APPROVED"})

\* mid of ticker t in the snapshot, for a ticker the snapshot quotes
Quoted(t, mkts) == \E i \in DOMAIN mkts : mkts[i].ticker = t
MidOf(t, mkts) == mkts[CHOOSE i \in DOMAIN mkts : mkts[i].ticker = t].mid
SidePrice(side, t, mkts) == IF side = "YES" THEN MidOf(t, mkts) ELSE 100 - MidOf(t, mkts)

\* The scenario of C3 on the ledger step itself: 3 contracts opened at 40, a YES
\* signal of another size and price while mid is 55.
C3_Example ==
  LET pos == [side |-> "YES", count |-> 3, avgPrice |-> 40, ticker |-> "T1"]
      pf == [InitialPortfolio EXCEPT !.positions = [k \in {<<"T1", "YES">>} |-> pos]]
      sig == [ticker |-> "T1", side |-> "YES", price |-> 52, count |-> 2,
              reason |-> "MM yes bid", confidence |-> MMConfidence, edge2 |-> 6,
              status |-> "APPROVED"]
      mkts == << [ticker |-> "T1", mid |-> 55, yesBid |-> 53, yesAsk |-> 57, spread |-> 4] >>
      after == applySignal(pf, pf, sig, mkts)
  IN /\ after.totalPnl = 45
     /\ DOMAIN after.positions = {}
     /\ Last(after.closedTrades).exitPrice = 55

\* C3: an approved signal for a key that holds a position closes the whole
\* position at the snapshot's price for that side (mid for YES, 100 - mid for NO):
\* totalPnl grows by (exitPrice - avgPrice) * existing.count, the position is
\* removed and none is created, whatever the signal's own count and price.
C3_FullLiquidation ==
  [][TickStep =>
      /\ StepsChain
      /\ C3_Example
      /\ \A n \in DOMAIN steps' :
           LET st == steps'[n]
               key == <<st.sig.ticker, st.sig.side>>
           IN ~StepOpens(st) =>
                LET existing == st.before.positions[key]
                    exitPrice == SidePrice(st.sig.side, st.sig.ticker, markets')
                    pnl == (exitPrice - existing.avgPrice) * existing.count
                IN /\ Quoted(st.sig.ticker, markets')
                   /\ st.after.totalPnl = st.before.totalPnl + pnl
                   /\ DOMAIN st.after.positions = DOMAIN st.before.positions \ {key}
                   /\ \A k \in DOMAIN st.after.positions :
                        st.after.positions[k] = st.before.positions[k]]_vars

\* C3 witness: a cycle liquidated a position with a signal whose count and price
\* differ from the position's, at a profit or a loss.
C3_Witness ==
  \E n \in DOMAIN steps :
     LET st == steps[n]
         key == <<st.sig.ticker, st.sig.side>>
     IN /\ ~StepOpens(st)
        /\ st.sig.count # st.before.positions[key].count
        /\ st.sig.price # st.before.positions[key].avgPrice
        /\ st.after.totalPnl # st.before.totalPnl
        /\ key \notin DOMAIN st.after.positions

\* sum over the keys ks of (side price - avgPrice) * count against the snapshot
RECURSIVE MarkToMarket(_, _, _)
MarkToMarket(ks, positions, mkts) ==
  IF ks = {} THEN 0
  ELSE LET k == CHOOSE x \in ks : TRUE
           pos == positions[k]
       IN (SidePrice(pos.side, pos.ticker, mkts) - pos.avgPrice) * pos.count
            + MarkToMarket(ks \ {k}, positions, mkts)

QuotedKeys(positions, mkts) == {k \in DOMAIN positions : Quoted(positions[k].ticker, mkts)}

\* C4 as stated: after every cycle and after reset the last equity sample is
\* totalPnl plus the mark-to-market of all open positions against the cycle's
\* snapshot (so the snapshot prices every open position).
C4_AllPositionsMarked ==
  [][(TickStep \/ ResetStep) =>
      /\ QuotedKeys(portfolio'.positions, markets') = DOMAIN portfolio'.positions
      /\ Last(portfolio'.equityCurve) =
           portfolio'.totalPnl
             + MarkToMarket(DOMAIN portfolio'.positions, portfolio'.positions, markets')]_vars

\* C4 amended: after every cycle and after reset the last equity sample is
\* totalPnl plus the mark-to-market of the open positions whose ticker the
\* cycle's snapshot quotes; a position the snapshot does not quote adds nothing.
C4_QuotedPositionsMarked ==
  [][(TickStep \/ ResetStep) =>
      Last(portfolio'.equityCurve) =
        portfolio'.totalPnl
          + MarkToMarket(QuotedKeys(portfolio'.positions, markets'),
                         portfolio'.positions, markets')]_vars

\* C4 witness: after a cycle a NO position and a YES position are open and
\* quoted, and the last equity sample differs from totalPnl.
C4_Witness ==
  /\ cycleCount > 0
  /\ \E k1, k2 \in QuotedKeys(portfolio.positions, markets) :
       portfolio.positions[k1].side = "NO" /\ portfolio.positions[k2].side = "YES"
  /\ Last(portfolio.equityCurve) # portfolio.totalPnl

\* C5: the equity curve never holds more than 100 samples.
C5_EquityAtMost100 == Len(portfolio.equityCurve) <= 100

\* C5, the failing case: the curve holds 101 samples after the hundredth cycle.
C5_Case == cycleCount = 100 /\ Len(portfolio.equityCurve) = 101

\* C6: the list of closed trades never holds more than 50 records.
C6_TradesAtMost50 == Len(portfolio.closedTrades) <= 50

\* C6, the failing case: 51 closed trades are retained.
C6_Case == Len(portfolio.closedTrades) = 51

Liquidations(sts) == {n \in DOMAIN sts : ~StepOpens(sts[n])}

\* C7: a cycle that liquidates k positions, the list staying within its cap,
\* leaves closedTrades with k more records than before, the earlier records kept.
C7_OneRecordPerLiquidation ==
  [][TickStep =>
      LET k == Cardinality(Liquidations(steps'))
          before == portfolio.closedTrades
          after == portfolio'.closedTrades
      IN Len(before) + k <= TradesKeep =>
           /\ Len(after) = Len(before) + k
           /\ SubSeq(after, 1, Len(before)) = before]_vars

\* C7, the failing case: a cycle liquidated two positions and closedTrades holds
\* a single record.
C7_Case ==
  /\ Cardinality(Liquidations(steps)) = 2
  /\ Len(portfolio.closedTrades) = 1

IsMMSignal(sig) == sig.reason \in {"MM yes bid", "MM no bid"}
IsValueSignal(sig) == sig.reason \in {"YES undervalued", "NO undervalued"}

\* C8: no signal of the market-maker strategy is rejected with "Low confidence",
\* in any strategy mode and for any minConfidence.
C8_MMBypassesConfidence ==
  \A i \in DOMAIN signals : IsMMSignal(signals[i]) => ~HasReason(signals[i], "Low confidence")

\* C8, the failing case: in mode "both" a market-maker signal is rejected with
\* "Low confidence".
C8_Case ==
  /\ activeStrategy = "both"
  /\ \E i \in DOMAIN signals : IsMMSignal(signals[i]) /\ HasReason(signals[i], "Low confidence")

\* The YES side of market m has an edge that meets the threshold and a confidence
\* below minConfidence, for the fair value fair2 (in half cents).
WeakYesEdge(m, fair2, vp) ==
  /\ fair2 - 2 * m.yesAsk >= 2 * vp.threshold
  /\ Min(fair2 - 2 * m.yesAsk, ConfScale) < vp.minConfidence
WeakNoEdge(m, fair2, vp) ==
  /\ 2 * m.yesBid - fair2 >= 2 * vp.threshold
  /\ Min(2 * m.yesBid - fair2, ConfScale) < vp.minConfidence

ValueSignalsFor(sigs, t, side) ==
  {j \in DOMAIN sigs : IsValueSignal(sigs[j]) /\ sigs[j].ticker = t /\ sigs[j].side = side}

\* C9 as stated: a value signal whose edge meets the threshold and whose
\* confidence is below minConfidence is in the cycle's signal list, REJECTED with
\* "Low confidence".
C9_WeakSignalRejected ==
  [][(TickStep /\ activeStrategy \in {"value", "both"}) =>
      \A i \in DOMAIN markets' :
        /\ WeakYesEdge(markets'[i], fairs'[i], valueParams) =>
             \E j \in ValueSignalsFor(signals', markets'[i].ticker, "YES") :
                HasReason(signals'[j], "Low confidence")
        /\ WeakNoEdge(markets'[i], fairs'[i], valueParams) =>
             \E j \in ValueSignalsFor(signals', markets'[i].ticker, "NO") :
                HasReason(signals'[j], "Low confidence")]_vars

\* The scenario of C9 on the strategy itself: yesBid 40, yesAsk 50, mid 45,
\* threshold 8, minConfidence 0.3 and a fair value of 60 yield no signal.
C9_Example ==
  evaluateValueStrategy(
    [ticker |-> "T1", mid |-> 45, yesBid |-> 40, yesAsk |-> 50, spread |-> 10],
    [threshold |-> 8, maxContracts |-> 5, minConfidence |-> 60], 120) = <<>>

\* C9 amended: a side of a market whose edge meets the threshold and whose
\* confidence is below minConfidence yields no value signal at all (the strategy
\* drops it), and no value signal is ever REJECTED with "Low confidence".
C9_WeakSignalDropped ==
  [][(TickStep /\ activeStrategy \in {"value", "both"}) =>
      /\ C9_Example
      /\ \A i \in DOMAIN markets' :
           /\ WeakYesEdge(markets'[i], fairs'[i], valueParams) =>
                ValueSignalsFor(signals', markets'[i].ticker, "YES") = {}
           /\ WeakNoEdge(markets'[i], fairs'[i], valueParams) =>
                ValueSignalsFor(signals', markets'[i].ticker, "NO") = {}
      /\ \A j \in DOMAIN signals' :
           IsValueSignal(signals'[j]) => ~HasReason(signals'[j], "Low confidence")]_vars

\* C9 witness: the last cycle ran the value strategy on a market whose YES edge
\* met the threshold with a confidence below minConfidence, and listed no value
\* signal for it.
C9_Witness ==
  /\ cycleCount > 0
  /\ activeStrategy \in {"value", "both"}
  /\ Len(fairs) = Len(markets)
  /\ \E i \in DOMAIN markets :
       /\ WeakYesEdge(markets[i], fairs[i], valueParams)
       /\ ValueSignalsFor(signals, markets[i].ticker, "YES") = {}

\* C10 as stated: in a cycle that starts with max(0, -totalPnl) >= maxDailyLoss
\* every signal is REJECTED with reason "Daily loss limit".
C10_AllDailyLoss ==
  [][(TickStep /\ LossFails(portfolio, riskParams)) =>
      \A j \in DOMAIN signals' : HasReason(signals'[j], "Daily loss limit")]_vars

\* C10 amended: in a cycle that starts with max(0, -totalPnl) >= maxDailyLoss
\* every signal is REJECTED, with reason "Daily loss limit" unless an earlier
\* check (exposure, confidence, position limit) fails, whose reason it then
\* carries; nothing is applied, so totalPnl is unchanged and the next cycle
\* starts under the same condition.
C10_AllRejected ==
  [][(TickStep /\ LossFails(portfolio, riskParams)) =>
      /\ \A j \in DOMAIN signals' :
           LET sig == signals'[j]
               earlier == \/ ExposureFails(sig, riskParams)
                          \/ ConfidenceFails(sig, activeStrategy, valueParams)
                          \/ PositionFails(sig, portfolio, riskParams)
           IN /\ sig.status = "REJECTED"
              /\ HasReason(sig, "Daily loss limit") <=> ~earlier
      /\ steps' = <<>>
      /\ portfolio'.totalPnl = portfolio.totalPnl]_vars

\* C10 witness: a cycle began at or past the loss limit and rejected every
\* signal, one for the daily loss and one for an earlier check.
C10_Witness ==
  /\ LossFails(portfolio, riskParams)
  /\ steps = <<>>
  /\ signals # <<>>
  /\ \A j \in DOMAIN signals : signals[j].status = "REJECTED"
  /\ \E j \in DOMAIN signals : HasReason(signals[j], "Daily loss limit")
  /\ \E j \in DOMAIN signals : ~HasReason(signals[j], "Daily loss limit")

Front(q) == SubSeq(q, 1, Len(q) - 1)
IsSuffix(a, b) == Len(a) <= Len(b) /\ a = SubSeq(b, Len(b) - Len(a) + 1, Len(b))
NoneApproved(sigs) == \A j \in DOMAIN sigs : sigs[j].status = "REJECTED"

\* C11: a cycle in which every signal is REJECTED, or that has no signals, leaves
\* balance, totalPnl, totalFees, positions and closedTrades as they were and only
\* adds one sample to equityCurve: the earlier samples stay in place (all of
\* them while the curve is below its retention limit).
C11_RejectedLeavePortfolio ==
  [][(lastOp' = "tick" /\ NoneApproved(signals')) =>
      /\ portfolio'.balance = portfolio.balance
      /\ portfolio'.totalPnl = portfolio.totalPnl
      /\ portfolio'.totalFees = portfolio.totalFees
      /\ portfolio'.positions = portfolio.positions
      /\ portfolio'.closedTrades = portfolio.closedTrades
      /\ portfolio'.equityCurve # <<>>
      /\ IsSuffix(Front(portfolio'.equityCurve), portfolio.equityCurve)
      /\ Len(portfolio.equityCurve) < 100 =>
           Front(portfolio'.equityCurve) = portfolio.equityCurve]_vars

\* C11 witness: with positions open, the last cycle produced signals and
\* rejected them all.
C11_Witness ==
  /\ lastOp = "tick"
  /\ signals # <<>>
  /\ NoneApproved(signals)
  /\ DOMAIN portfolio.positions # {}
  /\ portfolio.balance < StartBalance

\* C12: the cycle of a tick is not evaluated and applied while the snapshot
\* fetch which that tick started is pending: a tick leaves no more fetches
\* pending than it found.
C12_CycleAwaitsFetch ==
  [][lastOp' = "tick" => inflight' <= inflight]_vars

\* C12, the failing case: a live tick evaluated signals on the snapshot of an
\* earlier fetch and applied them, while its own fetch is the only one pending.
C12_Case ==
  /\ lastOp = "tick"
  /\ mode = "live"
  /\ inflight = 1
  /\ signals # <<>>
  /\ steps # <<>>

\* C13: the portfolio changes only in a tick or a reset; the ledger steps of a
\* cycle start from the portfolio the tick found and lead, one after another, to
\* the portfolio the tick leaves; and the completion of a fetch leaves the
\* portfolio (balance, totalPnl, totalFees, positions, closedTrades,
\* equityCurve) as it was.
C13_LedgerAlone ==
  [][/\ portfolio' # portfolio => lastOp' \in {"tick", "reset"}
     /\ lastOp' = "tick" => StepsChain
     /\ inflight' < inflight => portfolio' = portfolio]_vars

\* C13 witness: after two cycles, the second fired while the fetch of the first
\* was pending, a fetch has completed and another is still pending, with a
\* position open.
C13_Witness ==
  /\ lastOp = "other"
  /\ cycleCount = 2
  /\ inflight = 1
  /\ DOMAIN portfolio.positions # {}

EngineState == <<cycleCount, signals, portfolio, totalSignals, ordersPlaced, ordersRejected>>

\* C14: the engine starts STOPPED; START and STOP only flip the run state; a
\* tick runs only while RUNNING; and while STOPPED cycleCount, signals, the
\* portfolio and the running totals change only by a reset.
C14_StoppedIsQuiet ==
  /\ isRunning = FALSE
  /\ [][/\ lastOp' = "tick" => isRunning
        /\ (~isRunning /\ lastOp' # "reset") => UNCHANGED EngineState
        /\ isRunning' # isRunning =>
             UNCHANGED <<EngineState, mode, markets, config, inflight>>]_vars

\* C14 witness: the engine is STOPPED after it ran two cycles and opened
\* positions, which a later handler other than a tick or a reset left in place.
C14_Witness ==
  /\ ~isRunning
  /\ lastOp = "other"
  /\ cycleCount = 2
  /\ DOMAIN portfolio.positions # {}

\* C15: reset is enabled whether the engine is STOPPED or RUNNING, leaves the
\* run state as it is, and leaves the portfolio at its starting value (starting
\* balance, totalPnl 0, no positions, no closed trades, equityCurve = [0],
\* totalFees 0) and cycleCount, totalSignals, ordersPlaced, ordersRejected at 0.
C15_ResetRestoresStart ==
  /\ [](ENABLED resetStats)
  /\ [][lastOp' = "reset" =>
          /\ isRunning' = isRunning
          /\ portfolio'.balance = StartBalance
          /\ portfolio'.totalPnl = 0
          /\ DOMAIN portfolio'.positions = {}
          /\ portfolio'.closedTrades = <<>>
          /\ portfolio'.equityCurve = <<0>>
          /\ portfolio'.totalFees = 0
          /\ cycleCount' = 0 /\ totalSignals' = 0
          /\ ordersPlaced' = 0 /\ ordersRejected' = 0]_vars

\* C15 witness: a reset has just run on a RUNNING engine whose parameters had
\* been changed, and left them changed.
C15_Witness ==
  /\ lastOp = "reset"
  /\ isRunning
  /\ mmParams # DefaultMmParams
  /\ portfolio = InitialPortfolio

\* C16 as stated: after a reset the log is empty.
C16_LogEmptyAfterReset ==
  [][lastOp' = "reset" => log' = <<>>]_vars

\* C16 amended: after a reset the log holds exactly one entry, the INFO line
\* "Stats reset" that the reset itself writes; every earlier entry is gone.
C16_LogHoldsResetLine ==
  [][lastOp' = "reset" =>
       log' = << [level |-> "INFO", msg |-> "Stats reset"] >>]_vars

\* C16 witness: a reset has just run after at least one fetch or cycle had been
\* logged (a fetch is still pending), and the log holds the single reset line.
C16_Witness ==
  /\ lastOp = "reset"
  /\ inflight > 0
  /\ Len(log) = 1
  /\ log[1].msg = "Stats reset"

AtStart == lastOp = "reset" \/ (mode = "detecting" /\ cycleCount = 0 /\ lastOp = "other")

\* C17: in the initial state and right after a reset the balance is 1,000,000
\* cents, totalPnl and totalFees are 0, no position is open and equityCurve is [0].
C17_StartsAtMillion ==
  AtStart =>
    /\ portfolio.balance = 1000000
    /\ portfolio.totalPnl = 0 /\ portfolio.totalFees = 0
    /\ DOMAIN portfolio.positions = {}
    /\ portfolio.equityCurve = <<0>>

\* C17, the failing case: right after a reset the balance is 10,000 cents, the
\* rest of the portfolio being as the claim says.
C17_Case ==
  /\ lastOp = "reset"
  /\ portfolio.balance = 10000
  /\ portfolio.totalPnl = 0 /\ portfolio.totalFees = 0
  /\ DOMAIN portfolio.positions = {}
  /\ portfolio.equityCurve = <<0>>

\* C18: every tick raises cycleCount by exactly 1, with or without signals;
\* nothing else raises it, and it goes down only when a reset sets it to 0.
C18_CycleCountSteps ==
  [][/\ lastOp' = "tick" => cycleCount' = cycleCount + 1
     /\ cycleCount' > cycleCount => lastOp' = "tick"
     /\ cycleCount' < cycleCount => lastOp' = "reset"
     /\ lastOp' = "reset" => cycleCount' = 0]_vars

\* C18 witness: a tick that produced no signal has just been counted, after a
\* tick that produced some.
C18_Witness ==
  /\ lastOp = "tick"
  /\ signals = <<>>
  /\ totalSignals > 0
  /\ cycleCount >= 2

RejectedIn(sigs) == {j \in DOMAIN sigs : sigs[j].status = "REJECTED"}
ApprovedIn(sigs) == {j \in DOMAIN sigs : sigs[j].status = "APPROVED"}

\* C19: every tick evaluates the strategies selected, with the value and
\* market-maker parameters, and judges the signals by the risk parameters, that
\* are current when it runs; and a change of configuration leaves what earlier
\* cycles produced (signals, portfolio, counters, log) as it was.
C19_FreshConfig ==
  [][/\ lastOp' = "tick" =>
          /\ (\E j \in DOMAIN signals' : IsMMSignal(signals'[j]))
               <=> (activeStrategy \in {"mm", "both"} /\ markets' # <<>>)
          /\ (\E j \in DOMAIN signals' : IsValueSignal(signals'[j]))
               => activeStrategy \in {"value", "both"}
          /\ \A j \in DOMAIN signals' :
               LET sig == signals'[j]
               IN /\ IsMMSignal(sig) =>
                       /\ sig.count = mmParams.size
                       /\ sig.edge2 = 2 * (mmParams.spread \div 2)
                  /\ IsValueSignal(sig) =>
                       /\ sig.count = Min(valueParams.maxContracts, 3)
                       /\ sig.edge2 >= 2 * valueParams.threshold
                       /\ sig.confidence >= valueParams.minConfidence
                  /\ (sig.status = "APPROVED") <=>
                       ~(\/ ExposureFails(sig, riskParams)
                         \/ ConfidenceFails(sig, activeStrategy, valueParams)
                         \/ PositionFails(sig, portfolio, riskParams)
                         \/ LossFails(portfolio, riskParams))
     /\ config' # config => UNCHANGED <<EngineState, markets, log>>]_vars

\* C19 witness: an engine started once and never stopped ran a cycle with the
\* market maker's size at 2 and, the size then set to 8, a second cycle whose
\* market-maker signals have size 8 and closed a position of size 2.
C19_Witness ==
  /\ lastOp = "tick"
  /\ cycleCount = 2
  /\ \A i \in DOMAIN log : log[i] # BotStoppedLine
  /\ mmParams.size = 8
  /\ \E j \in DOMAIN signals : IsMMSignal(signals[j]) /\ signals[j].count = 8
  /\ \E n \in DOMAIN portfolio.closedTrades : portfolio.closedTrades[n].count = 2

\* the lines a step added to a log that is below its retention limit
NewLines(old, new) == SubSeq(new, Len(old) + 1, Len(new))
AboutApproved(line) == line.level \in {"SIGNAL", "PROFIT", "LOSS"}

\* C20 as stated: in every cycle the log receives, for each signal marked
\* REJECTED, an entry for that rejection: at least as many lines that are not
\* about an approved signal or a closed trade as there are rejected signals.
C20_LinePerRejection ==
  [][(lastOp' = "tick" /\ Len(log') <= 150) =>
       LET new == NewLines(log, log')
       IN Cardinality({i \in DOMAIN new : ~AboutApproved(new[i])})
            >= Cardinality(RejectedIn(signals'))]_vars

\* C20 amended: every REJECTED signal carries a rejectReason and is counted in
\* the summary line that a cycle with signals logs first (n signals, p approved,
\* r rejected); the other lines of the cycle are about approved signals and
\* closed trades, one SIGNAL line per approved signal, so that no line is
\* written per rejection.
C20_RejectionsCounted ==
  [][(lastOp' = "tick" /\ Len(log') <= 150) =>
       LET new == NewLines(log, log')
       IN /\ SubSeq(log', 1, Len(log)) = log
          /\ \A j \in RejectedIn(signals') : "rejectReason" \in DOMAIN signals'[j]
          /\ signals' # <<>> =>
               /\ new # <<>>
               /\ new[1].level = "INFO" /\ new[1].msg = "Cycle"
               /\ new[1].signals = Len(signals')
               /\ new[1].rejected = Cardinality(RejectedIn(signals'))
               /\ new[1].approved = Cardinality(ApprovedIn(signals'))
               /\ \A i \in 2..Len(new) : AboutApproved(new[i])
               /\ Cardinality({i \in DOMAIN new : new[i].level = "SIGNAL"})
                    = Cardinality(ApprovedIn(signals'))]_vars

\* C20 witness: the last cycle rejected two signals or more and approved one,
\* and the summary line of the log counts them.
C20_Witness ==
  /\ lastOp = "tick"
  /\ Cardinality(RejectedIn(signals)) >= 2
  /\ ApprovedIn(signals) # {}
  /\ \E i \in DOMAIN log :
       /\ log[i].msg = "Cycle"
       /\ log[i].rejected = Cardinality(RejectedIn(signals))
       /\ \A k \in (i + 1)..Len(log) : AboutApproved(log[k])

\* ------------------------------------------------------------------- C21
\* C21: every signal the ledger applies has a count of at least 1 and a price
\* within 0..100 (a signal outside these limits never reaches the ledger).
C21_AppliedSignalsValid ==
  \A n \in DOMAIN steps :
     steps[n].sig.count >= 1 /\ steps[n].sig.price \in 0..100

\* The failing case: the ledger opened a position at a price above 100 cents,
\* and the log holds no diagnostic (REJECT) line about it.
C21_Case ==
  /\ lastOp = "tick"
  /\ \E n \in DOMAIN steps :
       /\ steps[n].sig.price > 100
       /\ StepOpens(steps[n])
       /\ posKey(steps[n].sig) \in DOMAIN portfolio.positions
       /\ portfolio.positions[posKey(steps[n].sig)].avgPrice > 100
  /\ \A i \in DOMAIN log : log[i].level # "REJECT"

\* ------------------------------------------------------------------- C22
Tickers(mkts) == {mkts[i].ticker : i \in DOMAIN mkts}

\* A step in which a fetch ended in failure: fetchLiveData threw, or its payload
\* carried errors and no markets.
FailedFetchStep == lastOp' = "failed" /\ inflight' = inflight - 1

\* C22: a failed snapshot fetch appends one REJECT line to the log and leaves the
\* market list, the RUNNING flag, the counters, the signals, the portfolio and
\* the configuration as they were; after it the engine is still RUNNING (the
\* guard of the interval callback holds), and the signals of every cycle name
\* only markets of the list.
C22_FailedFetchNotFatal ==
  /\ [](lastOp = "failed" => isRunning)
  /\ [][ /\ FailedFetchStep =>
              /\ markets' = markets
              /\ isRunning' = isRunning
              /\ \E line \in {FetchErrorLine, ApiErrorLine} :
                    line.level = "REJECT" /\ log' = addLog(log, line)
              /\ UNCHANGED <<mode, counters, signals, portfolio, config>>
         /\ lastOp' = "tick" =>
              \A j \in DOMAIN signals' : signals'[j].ticker \in Tickers(markets')
       ]_vars

\* A fetch failed while the list held a market, and a later tick produced
\* signals for that market.
C22_Witness ==
  /\ lastOp = "tick"
  /\ isRunning
  /\ Len(markets) > 0
  /\ Len(signals) > 0
  /\ \E i \in DOMAIN log, j \in DOMAIN log :
       i < j /\ log[i] = FetchErrorLine /\ log[j].msg = "Cycle"

\* ------------------------------------------------------------------- C23
\* floor(spread / 2), written without the division of the model's strategy
HalfSpread(spread) == (spread - (spread % 2)) \div 2

\* The two quotes the claim describes for a market and a (spread, size) pair:
\* price, count, confidence (0.5) and edge of the YES and of the NO order.
MMQuotes(m, spread, size) ==
  << [side |-> "YES", price |-> IF m.mid - HalfSpread(spread) > 1
                                   THEN m.mid - HalfSpread(spread) ELSE 1,
      count |-> size, confidence |-> ConfScale \div 2, edge2 |-> 2 * HalfSpread(spread)],
     [side |-> "NO", price |-> IF 100 - m.mid - HalfSpread(spread) > 1
                                  THEN 100 - m.mid - HalfSpread(spread) ELSE 1,
      count |-> size, confidence |-> ConfScale \div 2, edge2 |-> 2 * HalfSpread(spread)] >>

SameQuote(sig, q, m) ==
  /\ sig.ticker = m.ticker /\ sig.side = q.side /\ sig.price = q.price
  /\ sig.count = q.count /\ sig.confidence = q.confidence /\ sig.edge2 = q.edge2

MMSignalsOf(sigs) == SelectSeq(sigs, LAMBDA s : s.reason \in {"MM yes bid", "MM no bid"})

\* C23: for every market of the list and every (spread, size) of the sliders'
\* ranges, evaluateMMStrategy returns exactly two signals, the YES and the NO
\* quote of the claim; spread 6, size 2, mid 50 gives 47 / 47 with edge 3; and
\* the market-maker signals of a cycle are these two quotes per market, for the
\* parameters in force.
C23_MMEmitsTwoQuotes ==
  /\ \A i \in DOMAIN markets : \A spread \in SpreadRange, size \in SizeRange :
       LET sigs == evaluateMMStrategy(markets[i], [spread |-> spread, size |-> size])
           qs == MMQuotes(markets[i], spread, size)
       IN /\ Len(sigs) = 2
          /\ SameQuote(sigs[1], qs[1], markets[i])
          /\ SameQuote(sigs[2], qs[2], markets[i])
  /\ LET sigs == evaluateMMStrategy([ticker |-> "T1", mid |-> 50], [spread |-> 6, size |-> 2])
     IN /\ sigs[1].side = "YES" /\ sigs[1].price = 47 /\ sigs[1].edge2 = 6
        /\ sigs[2].side = "NO" /\ sigs[2].price = 47 /\ sigs[2].edge2 = 6
        /\ sigs[1].count = 2 /\ sigs[2].count = 2
  /\ (lastOp = "tick" /\ activeStrategy \in {"mm", "both"}) =>
       LET mm == MMSignalsOf(signals)
       IN /\ Len(mm) = 2 * Len(markets)
          /\ \A i \in DOMAIN markets :
               LET qs == MMQuotes(markets[i], mmParams.spread, mmParams.size)
               IN /\ SameQuote(mm[2 * i - 1], qs[1], markets[i])
                  /\ SameQuote(mm[2 * i], qs[2], markets[i])

\* A cycle whose market-maker quotes include one clamped at 1 cent (mid 1).
C23_Witness ==
  /\ lastOp = "tick"
  /\ activeStrategy = "mm"
  /\ Len(signals) = 2
  /\ signals[1].side = "YES" /\ signals[1].price = 1
  /\ signals[2].side = "NO" /\ signals[2].price = 100 - markets[1].mid - HalfSpread(mmParams.spread)
  /\ mmParams.spread = 10 /\ signals[1].count = 8

\* ------------------------------------------------------------------- C24
\* yesBid <= mid <= yesAsk
WellFormed(m) == m.yesBid <= m.mid /\ m.mid <= m.yesAsk

\* Both sides of the value strategy fire for market m on the draw noise2
\* (twice the noise added to mid), with the confidence filter out of the way.
BothSidesFire(m, threshold, noise2) ==
  LET sigs == evaluateValueStrategy(m, [threshold |-> threshold, maxContracts |-> 1,
                                        minConfidence |-> 0], 2 * m.mid + noise2)
  IN \E a \in DOMAIN sigs, b \in DOMAIN sigs : sigs[a].side = "YES" /\ sigs[b].side = "NO"

\* C24 (as the specification states it): for a well-formed market of the list
\* and the threshold in force (at least 1 cent) there is a fair-value draw for
\* which one evaluation emits both a YES and a NO signal.
C24_BothSidesMayFire ==
  \A i \in DOMAIN markets :
     (WellFormed(markets[i]) /\ valueParams.threshold >= 1) =>
        \E noise2 \in NoiseRange : BothSidesFire(markets[i], valueParams.threshold, noise2)

\* C24 (amended): both sides are judged on one fair-value draw, so for a
\* well-formed market and a threshold of at least 1 cent no draw makes both
\* fire, and no cycle holds a YES and a NO value signal for it; at most one
\* value signal per well-formed market and cycle.
C24_OneSidePerDraw ==
  /\ \A i \in DOMAIN markets :
       (WellFormed(markets[i]) /\ valueParams.threshold >= 1) =>
          \A noise2 \in NoiseRange :
             /\ ~BothSidesFire(markets[i], valueParams.threshold, noise2)
             /\ Len(evaluateValueStrategy(markets[i], valueParams,
                                          2 * markets[i].mid + noise2)) <= 1
  /\ lastOp = "tick" =>
       \A i \in DOMAIN markets :
          (WellFormed(markets[i]) /\ valueParams.threshold >= 1) =>
             Cardinality({j \in DOMAIN signals :
                            /\ signals[j].ticker = markets[i].ticker
                            /\ IsValueSignal(signals[j])}) <= 1

\* A cycle on the well-formed market quoted 49/50 in which the value strategy
\* fired on one side only.
C24_Witness ==
  /\ lastOp = "tick"
  /\ activeStrategy = "value"
  /\ Len(markets) = 1 /\ WellFormed(markets[1])
  /\ markets[1].yesBid = 49 /\ markets[1].yesAsk = 50
  /\ valueParams.threshold = 1
  /\ Len(signals) = 1
  /\ signals[1].side = "NO"

\* ------------------------------------------------------------------- C25
PriceRange == 0..100

\* Symmetry in the price, zero at both ends, no negative value and a maximum at
\* 50, for a fee function f over PriceRange and the quote sizes 1..10.
FeeShape(f(_, _)) ==
  \A c \in SizeRange, p \in PriceRange :
     /\ f(c, p) = f(c, 100 - p)
     /\ (p \in {0, 100} => f(c, p) = 0)
     /\ f(c, p) >= 0
     /\ f(c, p) <= f(c, 50)

StepFee(st) == st.after.totalFees - st.before.totalFees

\* C25: the fee, as the formula of the claim and as the ledger computes it, is
\* symmetric in the price, zero at 0 and 100, never negative and largest at 50
\* (prices 0..100, counts 1..10); every fee the ledger charges is the ledger's
\* fee of the signal's count and price and is not negative, and totalFees does
\* not decrease in a cycle.
C25_FeeShapeAndGrowth ==
  /\ [](lastOp = "reset" => FeeShape(DocumentedFee) /\ FeeShape(feeOf))
  /\ [][ lastOp' = "tick" =>
           /\ portfolio'.totalFees >= portfolio.totalFees
           /\ \A n \in DOMAIN steps' :
                /\ StepFee(steps'[n]) = feeOf(steps'[n].sig.count, steps'[n].sig.price)
                /\ StepFee(steps'[n]) >= 0
       ]_vars

\* A cycle that charged no fee on an order at 100 cents and a fee on another.
C25_Witness ==
  /\ lastOp = "tick"
  /\ portfolio.totalFees > 0
  /\ \E n \in DOMAIN steps, m \in DOMAIN steps :
       /\ steps[n].sig.price = 100 /\ StepFee(steps[n]) = 0
       /\ StepFee(steps[m]) > 0

\* ------------------------------------------------------------------- C26
\* C26 (as the specification states it): while the engine stays RUNNING the next
\* tick eventually fires, whatever configuration changes are made meanwhile
\* (stated for every cycle count below the explored bound).
C26_TickKeepsFiring ==
  \A k \in 0..(MaxTimerCycles - 1) :
     (isRunning /\ cycleCount = k) ~> (cycleCount = k + 1)

\* The failing case: a configuration change cleared an interval whose period
\* had elapsed, before its callback ran; the engine is RUNNING, no tick has
\* fired, and the period starts anew.
C26_Case ==
  /\ isRunning
  /\ lastOp = "cancel"
  /\ ~due
  /\ cycleCount = 0
  /\ config # <<"value", DefaultValueParams, DefaultMmParams, DefaultRiskParams>>

\* ------------------------------------------------------------------- C27
ApprovedFor(sigs, key) == {j \in ApprovedIn(sigs) : posKey(sigs[j]) = key}
Odd(n) == n % 2 = 1
Xor(a, b) == (a /\ ~b) \/ (~a /\ b)

\* C27: every position is filed under its own (ticker, side) key, one per key;
\* in a cycle each signal is rejected exactly when one of the four checks fails
\* against the portfolio the cycle began with; every ledger step on a key with
\* no position opens one and every step on a key with a position removes it;
\* and after the cycle a key holds a position iff it held one before XOR the
\* number of approved signals for it is odd.
C27_ParityOfApprovals ==
  /\ [](\A k \in DOMAIN portfolio.positions :
           /\ portfolio.positions[k].ticker = k[1]
           /\ portfolio.positions[k].side = k[2])
  /\ [][ lastOp' = "tick" =>
           /\ \A j \in DOMAIN signals' :
                signals'[j].status = "REJECTED" <=>
                   \/ ExposureFails(signals'[j], riskParams)
                   \/ ConfidenceFails(signals'[j], activeStrategy, valueParams)
                   \/ PositionFails(signals'[j], portfolio, riskParams)
                   \/ LossFails(portfolio, riskParams)
           /\ StepsChain
           /\ \A n \in DOMAIN steps' :
                posKey(steps'[n].sig) \in DOMAIN steps'[n].after.positions
                   <=> StepOpens(steps'[n])
           /\ \A key \in DOMAIN portfolio.positions \cup DOMAIN portfolio'.positions
                         \cup {posKey(signals'[j]) : j \in DOMAIN signals'} :
                key \in DOMAIN portfolio'.positions <=>
                   Xor(key \in DOMAIN portfolio.positions,
                       Odd(Cardinality(ApprovedFor(signals', key))))
       ]_vars

\* A cycle in mode "both" approved two signals for one key that held no
\* position: the first opened it, the second liquidated it, and the key is
\* empty after the cycle.
C27_Witness ==
  /\ lastOp = "tick"
  /\ activeStrategy = "both"
  /\ \E n \in DOMAIN steps, m \in DOMAIN steps :
       /\ n < m
       /\ posKey(steps[n].sig) = posKey(steps[m].sig)
       /\ posKey(steps[n].sig) \notin DOMAIN steps[1].before.positions
       /\ StepOpens(steps[n])
       /\ ~StepOpens(steps[m])
       /\ posKey(steps[n].sig) \notin DOMAIN portfolio.positions
       /\ Cardinality(ApprovedFor(signals, posKey(steps[n].sig))) = 2

\* ------------------------------------------------------------------- C28
\* sum of avgPrice * count over the positions at the keys ks
RECURSIVE CostOf(_, _)
CostOf(ks, positions) ==
  IF ks = {} THEN 0
  ELSE LET k == CHOOSE x \in ks : TRUE
       IN positions[k].avgPrice * positions[k].count + CostOf(ks \ {k}, positions)

OpenCost(pf) == CostOf(DOMAIN pf.positions, pf.positions)

\* C28 (as the specification states it): in every state
\* balance + cost of the open positions = starting balance + totalPnl - totalFees.
C28_Conservation ==
  portfolio.balance + OpenCost(portfolio)
     = StartBalance + portfolio.totalPnl - portfolio.totalFees

\* The failing case: the one position opened so far has been liquidated, none
\* is open, and the balance is short of starting balance + totalPnl - totalFees
\* by exactly the cost that was debited when the position was opened.
C28_Case ==
  /\ lastOp = "tick"
  /\ DOMAIN portfolio.positions = {}
  /\ Len(portfolio.closedTrades) = 1
  /\ portfolio.balance + portfolio.closedTrades[1].entryPrice * portfolio.closedTrades[1].count
        = StartBalance + portfolio.totalPnl - portfolio.totalFees
  /\ portfolio.closedTrades[1].entryPrice * portfolio.closedTrades[1].count > 0

\* ------------------------------------------------------------------- C29
\* C29: totalSignals = ordersPlaced + ordersRejected in every state; in every
\* cycle each signal is either APPROVED or REJECTED, and totalSignals,
\* ordersPlaced and ordersRejected grow by the number of signals, of approved
\* and of rejected signals of that cycle; reset sets the three to 0, and no
\* other step changes them.
C29_CountersAddUp ==
  /\ [](totalSignals = ordersPlaced + ordersRejected)
  /\ [][ /\ lastOp' = "tick" =>
              /\ \A j \in DOMAIN signals' : signals'[j].status \in {"APPROVED", "REJECTED"}
              /\ Cardinality(ApprovedIn(signals')) + Cardinality(RejectedIn(signals'))
                    = Len(signals')
              /\ totalSignals' = totalSignals + Len(signals')
              /\ ordersPlaced' = ordersPlaced + Cardinality(ApprovedIn(signals'))
              /\ ordersRejected' = ordersRejected + Cardinality(RejectedIn(signals'))
         /\ lastOp' = "reset" =>
              totalSignals' = 0 /\ ordersPlaced' = 0 /\ ordersRejected' = 0
         /\ lastOp' \notin {"tick", "reset"} =>
              UNCHANGED <<totalSignals, ordersPlaced, ordersRejected>>
       ]_vars

\* Two cycles that between them approved and rejected signals.
C29_Witness ==
  /\ lastOp = "tick"
  /\ cycleCount = 2
  /\ ordersPlaced > 0
  /\ ordersRejected > 0
  /\ totalSignals = ordersPlaced + ordersRejected
  /\ Len(signals) < totalSignals

\* ------------------------------------------------------------------- C30
\* the position at key has reached the position limit in force
AtLimit(pf, key, rp) ==
  key \in DOMAIN pf.positions /\ pf.positions[key].count >= rp.maxPositionPerMarket

\* C30: a cycle that begins with a position at or above maxPositionPerMarket
\* rejects every signal for that position's key and leaves the position as it
\* is; a cycle removes a position only through an approved signal for its key;
\* and no step other than a cycle or reset touches the positions. So the
\* position stays open until the limit is raised above its count or reset runs.
C30_FullPositionStays ==
  [][ /\ lastOp' = "tick" =>
           /\ \A key \in DOMAIN portfolio.positions :
                AtLimit(portfolio, key, riskParams) =>
                   /\ \A j \in DOMAIN signals' :
                        posKey(signals'[j]) = key => signals'[j].status = "REJECTED"
                   /\ key \in DOMAIN portfolio'.positions
                   /\ portfolio'.positions[key] = portfolio.positions[key]
           /\ \A key \in DOMAIN portfolio.positions \ DOMAIN portfolio'.positions :
                ApprovedFor(signals', key) # {}
      /\ lastOp' \notin {"tick", "reset"} => portfolio'.positions = portfolio.positions
    ]_vars

\* A second cycle found the positions of the first at the limit (8 of 8),
\* rejected both signals for their keys with "Position limit" and left them open.
C30_Witness ==
  /\ lastOp = "tick"
  /\ cycleCount = 2
  /\ Len(signals) = 2
  /\ \A j \in DOMAIN signals :
        /\ HasReason(signals[j], "Position limit")
        /\ AtLimit(portfolio, posKey(signals[j]), riskParams)
        /\ portfolio.positions[posKey(signals[j])].count = 8
  /\ steps = <<>>

\* ------------------------------------------------------------------- C31
\* C31: a cycle that begins with max(0, -totalPnl) >= maxDailyLoss approves no
\* signal, applies no ledger step, leaves totalPnl, balance, totalFees, the
\* positions and closedTrades as they were, and ends with the limit still
\* reached; between cycles only reset changes the portfolio. So the lockout
\* lasts until reset runs or maxDailyLoss is raised.
C31_LockoutAbsorbing ==
  [][ /\ (lastOp' = "tick" /\ LossFails(portfolio, riskParams)) =>
           /\ ApprovedIn(signals') = {}
           /\ steps' = <<>>
           /\ portfolio'.totalPnl = portfolio.totalPnl
           /\ portfolio'.balance = portfolio.balance
           /\ portfolio'.totalFees = portfolio.totalFees
           /\ portfolio'.positions = portfolio.positions
           /\ portfolio'.closedTrades = portfolio.closedTrades
           /\ LossFails(portfolio', riskParams')
      /\ lastOp' \notin {"tick", "reset"} => portfolio' = portfolio
    ]_vars

\* A cycle that began locked out and rejected all its signals, the realized
\* loss standing strictly past maxDailyLoss: the cycle that liquidated last
\* began below the limit (it approved signals) and took the loss beyond it.
C31_Witness ==
  /\ lastOp = "tick"
  /\ cycleCount >= 2
  /\ signals # <<>>
  /\ ApprovedIn(signals) = {}
  /\ steps = <<>>
  /\ portfolio.closedTrades # <<>>
  /\ -portfolio.totalPnl > riskParams.maxDailyLoss

====
